---- MODULE Spec2Model ----
(***************************************************************************)
(* Session lifecycle of the AD management front end: the session store     *)
(* (utils/auth.js), the request layer's session cache (services/api.js),   *)
(* the two interval timers, and the lifecycle controller App (app.js)      *)
(* together with the older controller AuthUtils (utils/auth.js).           *)
(*                                                                         *)
(* JavaScript runs one callback at a time: every action below is one run   *)
(* of a handler from its start, or from the resumption of an await, to its *)
(* next await or its end.  The remote API is the environment: the outcome  *)
(* of every request is drawn from the shapes the code distinguishes.       *)
(*                                                                         *)
(* Optional values (null / undefined / absent property) are sequences of   *)
(* length 0 or 1.  Time is in milliseconds, as Date.now().                 *)
(***************************************************************************)
EXTENDS Integers, Sequences, FiniteSets, Bags, TLC

\* ------------------------------------------------------------------ bounds
MaxTime == 900000
MaxTimerIds == 6
MaxTasks == 2
MaxListeners == 2

\* -------------------------------------------------------- program constants
TICK_MS == 1000
WARNING_MINUTES == 5
REFRESH_MINUTES == 15
MS_PER_SECOND == 1000
MS_PER_MINUTE == MS_PER_SECOND * 60
AUTH_LOGOUT_DELAY_MS == 2000
PASSWORD_LOGOUT_DELAY_MS == 3000
FORM_LOGOUT_DELAY_MS == 2000

warningTime == WARNING_MINUTES * MS_PER_MINUTE
refreshInterval == REFRESH_MINUTES * MS_PER_MINUTE

\* ------------------------------------------------------------- basic values
None == << >>
Some(x) == << x >>
IsSome(o) == Len(o) = 1
Val(o) == o[1]

SessionIds == {"s1", "s2"}
Users == {"alice"}

\* JSON.stringify / JSON.parse on the user records the model uses.  A stored
\* string that is no JSON text makes JSON.parse throw.
JSONstringify(u) == "{\"username\":\"" \o u \o "\"}"
JSONparses(s) == \E u \in Users : JSONstringify(u) = s
JSONparse(s) == CHOOSE u \in Users : JSONstringify(u) = s

\* A rounding down where Math.ceil rounds up
CeilRoundsDown(a, b) == a \div b

\* Math.ceil(a / b) and Math.floor(a / b) for b > 0
Ceil(a, b) == -((-a) \div b)
Floor(a, b) == a \div b

VARIABLES
    localStorage,        \* [sessionId, currentUser]: the persisted fields
    apiSessionId,        \* ApiService.sessionId, the request layer's cache
    isAuthenticated,     \* App.isAuthenticated
    sessionTimer,        \* App.sessionTimer (a timer id or null)
    autoRefreshTimer,    \* App.autoRefreshTimer
    authCurrentUser,     \* AuthUtils.currentUser
    authSessionTimer,    \* AuthUtils.sessionTimer
    authSessionExpiresAt,\* AuthUtils.sessionExpiresAt
    timers,              \* the host's active intervals and timeouts
    nextTimerId,         \* the next id setInterval / setTimeout returns
    now,                 \* Date.now()
    tasks,               \* async handlers suspended at an await (a bag)
    loginListeners,      \* submit listeners registered on the login form
    dashListeners,       \* click listeners registered on the logout button
    page,                \* which page the UI shows: "login" or "dashboard"
    toast,               \* the message of the last notice shown
    sessionAlert,        \* minutesLeft of the session warning shown
    last                 \* the handler run that produced this state

vars == << localStorage, apiSessionId, isAuthenticated, sessionTimer,
           autoRefreshTimer, authCurrentUser, authSessionTimer,
           authSessionExpiresAt, timers, nextTimerId, now, tasks,
           loginListeners, dashListeners, page, toast,
           sessionAlert, last >>

\* The state as one record, so that a handler is a composition of the
\* functions it calls, in the order it calls them.
Cur ==
    [ localStorage |-> localStorage, apiSessionId |-> apiSessionId,
      isAuthenticated |-> isAuthenticated, sessionTimer |-> sessionTimer,
      autoRefreshTimer |-> autoRefreshTimer,
      authCurrentUser |-> authCurrentUser,
      authSessionTimer |-> authSessionTimer,
      authSessionExpiresAt |-> authSessionExpiresAt,
      timers |-> timers, nextTimerId |-> nextTimerId, now |-> now,
      tasks |-> tasks, loginListeners |-> loginListeners,
      dashListeners |-> dashListeners, page |-> page, toast |-> toast,
      sessionAlert |-> sessionAlert, last |-> last ]

Commit(s) ==
    /\ localStorage' = s.localStorage
    /\ apiSessionId' = s.apiSessionId
    /\ isAuthenticated' = s.isAuthenticated
    /\ sessionTimer' = s.sessionTimer
    /\ autoRefreshTimer' = s.autoRefreshTimer
    /\ authCurrentUser' = s.authCurrentUser
    /\ authSessionTimer' = s.authSessionTimer
    /\ authSessionExpiresAt' = s.authSessionExpiresAt
    /\ timers' = s.timers
    /\ nextTimerId' = s.nextTimerId
    /\ now' = s.now
    /\ tasks' = s.tasks
    /\ loginListeners' = s.loginListeners
    /\ dashListeners' = s.dashListeners
    /\ page' = s.page
    /\ toast' = s.toast
    /\ sessionAlert' = s.sessionAlert
    /\ last' = s.last

\* ------------------------------------------------- session store (auth.js)
\* A setSession that removes the stored id when it is handed none
setSessionClearing(s, sessionId, user) ==
    [s EXCEPT !.localStorage.sessionId = sessionId,
              !.localStorage.currentUser =
                  IF IsSome(user) THEN Some(JSONstringify(Val(user))) ELSE @]

\* setSession(sessionId, user)
setSession(s, sessionId, user) ==
    LET a == IF IsSome(sessionId)
                THEN [s.localStorage EXCEPT !.sessionId = sessionId]
                ELSE s.localStorage
        b == IF IsSome(user)
                THEN [a EXCEPT !.currentUser = Some(JSONstringify(Val(user)))]
                ELSE a
    IN [s EXCEPT !.localStorage = b]

\* A getSession that gives up when the stored user does not parse
getSessionStrict(s) ==
    IF \/ ~IsSome(s.localStorage.sessionId)
       \/ ~IsSome(s.localStorage.currentUser)
       \/ ~JSONparses(Val(s.localStorage.currentUser))
        THEN None
        ELSE Some([ sessionId |-> Val(s.localStorage.sessionId),
                    user |-> Some(JSONparse(Val(s.localStorage.currentUser))) ])

\* getSession(): null, or {sessionId, user}
getSession(s) ==
    IF ~IsSome(s.localStorage.sessionId) THEN None
    ELSE Some([ sessionId |-> Val(s.localStorage.sessionId),
                user |-> IF /\ IsSome(s.localStorage.currentUser)
                            /\ JSONparses(Val(s.localStorage.currentUser))
                           THEN Some(JSONparse(Val(s.localStorage.currentUser)))
                           ELSE None ])

\* A clearSession that removes the id only
clearSessionIdOnly(s) == [s EXCEPT !.localStorage.sessionId = None]

\* clearSession()
clearSession(s) ==
    [s EXCEPT !.localStorage = [sessionId |-> None, currentUser |-> None]]

\* --------------------------------------------------- ApiService (api.js)
\* A setSessionId that writes the cache and leaves the store alone
ApiSetSessionIdCacheOnly(s, sessionId) ==
    [s EXCEPT !.apiSessionId = sessionId]

\* ApiService.setSessionId(sessionId)
ApiSetSessionId(s, sessionId) ==
    [s EXCEPT !.apiSessionId = sessionId,
              !.localStorage = [s.localStorage EXCEPT !.sessionId = sessionId]]

\* ApiService.getSessionId(): fills the cache from storage when it is empty
ApiGetSessionId(s) ==
    IF ~IsSome(s.apiSessionId)
        THEN [s EXCEPT !.apiSessionId = s.localStorage.sessionId]
        ELSE s

\* ApiService.request up to its await of fetch: reads the session id for the
\* X-Session-ID header.
ApiRequest(s) == ApiGetSessionId(s)

\* ---------------------------------------------------------- host timers
Interval(id, kind, expiresAt, due) ==
    [id |-> id, kind |-> kind, expiresAt |-> expiresAt, due |-> due]

\* clearInterval / clearTimeout (one id pool): cancels the timer with this id
clearTimer(s, handle) ==
    IF IsSome(handle)
        THEN [s EXCEPT !.timers = {t \in s.timers : t.id # Val(handle)}]
        ELSE s

ActiveKind(kind) == {t \in timers : t.kind = kind}

\* ------------------------------------------------------------ UI helpers
\* App.showToast(title, message, type)
showToast(s, title, message) == [s EXCEPT !.toast = << title, message >>]

\* App.showSessionWarning(minutesLeft)
showSessionWarning(s, minutesLeft) == [s EXCEPT !.sessionAlert = Some(minutesLeft)]

\* ---------------------------------------- session info / expiry metadata
\* What startSessionManagement and initializeAuthenticated are handed: a
\* number, an object with optional expiresIn / expiresInSeconds / expiresAt,
\* or undefined.
NumArg(n) ==
    [ type |-> "number", num |-> Some(n), expiresIn |-> None,
      expiresInSeconds |-> None, expiresAt |-> None ]
ObjArg(expiresIn, expiresInSeconds, expiresAt) ==
    [ type |-> "object", num |-> None, expiresIn |-> expiresIn,
      expiresInSeconds |-> expiresInSeconds, expiresAt |-> expiresAt ]
Undefined ==
    [ type |-> "undefined", num |-> None, expiresIn |-> None,
      expiresInSeconds |-> None, expiresAt |-> None ]

\* App.getExpiresInSeconds(sessionInfoOrExpires): seconds, or null
getExpiresInSeconds(arg, t) ==
    IF arg.type = "number" THEN arg.num
    ELSE IF IsSome(arg.expiresIn) THEN arg.expiresIn
    ELSE IF IsSome(arg.expiresInSeconds) THEN arg.expiresInSeconds
    ELSE IF IsSome(arg.expiresAt) THEN
        LET ms == Val(arg.expiresAt) - t
        IN Some(IF ms > 0 THEN Floor(ms, MS_PER_SECOND) ELSE 0)
    ELSE None

\* ------------------------------------------------ timer primitives (auth.js)
\* startSessionTimer(expiresIn, onExpire, onWarning): arms the 1 s countdown
\* interval and returns its id.
startSessionTimer(s, expiresIn) ==
    [s EXCEPT !.timers = @ \cup { Interval(s.nextTimerId, "countdown",
                                           s.now + expiresIn * MS_PER_SECOND,
                                           s.now + TICK_MS) },
              !.nextTimerId = @ + 1]

\* An autoRefreshSession that returns an id and arms nothing
autoRefreshSessionUnarmed(s) == [s EXCEPT !.nextTimerId = @ + 1]

\* autoRefreshSession(onSuccess, onError): arms the 15 min refresh interval
autoRefreshSession(s) ==
    [s EXCEPT !.timers = @ \cup { Interval(s.nextTimerId, "refresh", 0,
                                           s.now + refreshInterval) },
              !.nextTimerId = @ + 1]

\* ---------------------------------------------------- App (app.js)
\* App.initializeUnauthenticated(): also registers one more submit listener
initializeUnauthenticated(s) ==
    [s EXCEPT !.isAuthenticated = FALSE,
              !.page = "login",
              !.loginListeners = @ + 1]

\* App.setupDashboardListeners()
setupDashboardListeners(s) == [s EXCEPT !.dashListeners = @ + 1]

\* The expiry test of App.startSessionManagement: no timer when it holds
NoExpiry(e) == ~IsSome(e) \/ Val(e) = 0 \/ Val(e) <= 0

\* A startSessionManagement that cancels nothing before it arms
KeepExistingTimers(s) == s

\* The cancellation App.startSessionManagement starts with
ClearExistingTimers(s) ==
    clearTimer(clearTimer(s, s.sessionTimer), s.autoRefreshTimer)

\* App.startSessionManagement(sessionInfoOrExpires)
startSessionManagement(s, arg) ==
    LET s1 == ClearExistingTimers(s)
        e == getExpiresInSeconds(arg, s.now)
    IN IF NoExpiry(e) THEN s1
       ELSE LET s2 == startSessionTimer(s1, Val(e))
                s3 == [s2 EXCEPT !.sessionTimer = Some(s1.nextTimerId)]
                s4 == autoRefreshSession(s3)
            IN [s4 EXCEPT !.autoRefreshTimer = Some(s3.nextTimerId)]

\* App.handleSessionExpired()
handleSessionExpired(s) ==
    showToast(initializeUnauthenticated(clearSession(s)),
              "Session Expired", "Please login again")

\* ------------------------------------------------------- suspended handlers
\* A suspended handler: where it waits and the locals it resumes with: the
\* session info at hand, the handler that started the chain it belongs to and
\* what is kept of the response that chain received.
Task(kind, pc, info, caller, response) ==
    [ kind |-> kind, pc |-> pc, info |-> info, caller |-> caller,
      response |-> response ]
Spawn(s, t) == [s EXCEPT !.tasks = @ (+) SetToBag({t})]
Resume(s, t) == [s EXCEPT !.tasks = @ (-) SetToBag({t})]
Suspended(kind, pc) == {t \in BagToSet(tasks) : t.kind = kind /\ t.pc = pc}
SpawnN(s, t, n) == [s EXCEPT !.tasks = @ (+) [x \in {t} |-> n]]
InFlight == BagCardinality(tasks)

\* The record of the handler run that just ended or suspended
\* (op: the handler; input: what it was given, the class of its argument or
\* how its remote call ended, where the model records it; outcome: what the
\* handler did or returned; response: what is kept of the response a
\* handleLogin or init run received)
Last(op, input, outcome, response) ==
    [ op |-> op, input |-> input, outcome |-> outcome, response |-> response ]
Note(s, op, outcome, response) ==
    [s EXCEPT !.last = Last(op, "", outcome, response)]
NoteInput(s, op, input, outcome) ==
    [s EXCEPT !.last = Last(op, input, outcome, None)]
\* A run that suspends at an await has no outcome yet
Quiet(s) == Note(s, "", "", None)

\* Whether initializeAuthenticated fetches session info itself
NeedsSessionInfo(info) ==
    \/ info.type = "undefined"
    \/ /\ (~IsSome(info.expiresIn) \/ Val(info.expiresIn) = 0)
       /\ ~IsSome(info.expiresAt)

\* App.setupAuthenticatedUI() throws a TypeError on session.user when
\* getSession() is null (the page has the elements the script looks up).
SetupAuthenticatedUIThrows(s) == ~IsSome(getSession(s))

\* App.initializeAuthenticated(sessionInfo) from its call to its first await,
\* for a state where setupAuthenticatedUI does not throw.
initializeAuthenticatedStart(s, info, caller, response) ==
    LET s1 == [s EXCEPT !.isAuthenticated = TRUE, !.page = "dashboard"]
    IN IF NeedsSessionInfo(info)
          THEN Spawn(ApiRequest(s1),
                     Task("initializeAuthenticated", "validateSession", info,
                          caller, response))
          ELSE Spawn(ApiRequest(s1),
                     Task("initializeAuthenticated", "dashboard", info,
                          caller, response))

\* ... and for a state where it throws: only the flag is set
initializeAuthenticatedThrow(s) == [s EXCEPT !.isAuthenticated = TRUE]

\* ------------------------------------------------- the remote API's answers
\* Expiry metadata a response may carry, in seconds
ShortExpiry == 120
LongExpiry == 600
LoginExpiry == 1800
PastExpiry == 0 - 5
OddExpiry == 389
ExtendedExpiry == 1200

\* A validate response that resolved: {success, data: {User}, expiresIn?,
\* expiresAt?}
ValidateResponse(success, user, expiresIn, expiresAt) ==
    [ success |-> success, user |-> user, expiresIn |-> expiresIn,
      expiresAt |-> expiresAt ]
ValidateResponses ==
    { ValidateResponse(FALSE, None, None, None),
      ValidateResponse(TRUE, None, None, None) }
    \cup { ValidateResponse(TRUE, Some(u), e, None) :
             u \in Users, e \in {None, Some(ShortExpiry), Some(LongExpiry)} }
\* The response object as the session info the controller passes on
InfoOf(r) == ObjArg(r.expiresIn, None, r.expiresAt)

\* A login response that resolved: {success, sessionId?, user?, expiresIn?,
\* sessionInfo?}
LoginResponse(success, sessionId, user, expiresIn, sessionInfo) ==
    [ success |-> success, sessionId |-> sessionId, user |-> user,
      expiresIn |-> expiresIn, sessionInfo |-> sessionInfo ]
\* The server issues a session id that is not in use at the client
FreshIds(s) ==
    IF \E id \in SessionIds : Some(id) \notin {s.localStorage.sessionId, s.apiSessionId}
       THEN {CHOOSE id \in SessionIds :
                Some(id) \notin {s.localStorage.sessionId, s.apiSessionId}}
       ELSE SessionIds
\* Where a successful login response carries its expiry: nowhere, in a
\* top-level expiresIn, or in a sessionInfo object
LoginExpiryMetadata ==
    { << None, None >>,
      << Some(LoginExpiry), None >>,
      << None, Some(ObjArg(Some(LongExpiry), None, None)) >>,
      << None, Some(ObjArg(Some(LoginExpiry), None, None)) >> }
LoginResponses(s) ==
    { LoginResponse(FALSE, None, None, None, None) }
    \cup { LoginResponse(TRUE, None, Some(u), None, None) : u \in Users }
    \cup { LoginResponse(TRUE, Some(id), Some(u), m[1], m[2]) :
             id \in FreshIds(s), u \in Users, m \in LoginExpiryMetadata }
LoginFailed(r) == ~r.success \/ ~IsSome(r.sessionId)

\* ---------------------------------------------------------- page load
\* new App(): the constructor and init() up to its first await
LoadPage(storage) ==
    LET s0 == [ localStorage |-> storage, apiSessionId |-> None,
                isAuthenticated |-> FALSE, sessionTimer |-> None,
                autoRefreshTimer |-> None, authCurrentUser |-> None,
                authSessionTimer |-> None, authSessionExpiresAt |-> None,
                timers |-> {}, nextTimerId |-> 1, now |-> 0,
                tasks |-> EmptyBag, loginListeners |-> 0,
                dashListeners |-> 0, page |-> "login",
                toast |-> << "", "" >>, sessionAlert |-> None,
                last |-> Last("", "", "", None) ]
    IN IF IsSome(getSession(s0))
          THEN Spawn(ApiRequest(s0),
                     Task("init", "validateSession", Undefined, "init", None))
          ELSE initializeUnauthenticated(s0)

EmptyStorage == [sessionId |-> None, currentUser |-> None]

Start(s) ==
    /\ localStorage = s.localStorage
    /\ apiSessionId = s.apiSessionId
    /\ isAuthenticated = s.isAuthenticated
    /\ sessionTimer = s.sessionTimer
    /\ autoRefreshTimer = s.autoRefreshTimer
    /\ authCurrentUser = s.authCurrentUser
    /\ authSessionTimer = s.authSessionTimer
    /\ authSessionExpiresAt = s.authSessionExpiresAt
    /\ timers = s.timers
    /\ nextTimerId = s.nextTimerId
    /\ now = s.now
    /\ tasks = s.tasks
    /\ loginListeners = s.loginListeners
    /\ dashListeners = s.dashListeners
    /\ page = s.page
    /\ toast = s.toast
    /\ sessionAlert = s.sessionAlert
    /\ last = s.last

\* The first visit: nothing is persisted yet
Init == Start(LoadPage(EmptyStorage))

\* The user reloads the page: storage survives, everything else starts over.
\* No timer or handler survives either, so the clock is read from zero again.
Reload ==
    Commit(LoadPage(localStorage))

\* ------------------------------------------------------- App.handleLogin
\* What the model keeps of a login response once handleLogin has used it:
\* whether it was a failure, whether handling it wrote to the store, and the
\* expiresIn it carried.
Summary(r, wrote) ==
    [ failed |-> LoginFailed(r), persisted |-> wrote, expiresIn |-> r.expiresIn ]

\* initializeAuthenticated(sessionInfo) as handleLogin awaits it: a throw of
\* setupAuthenticatedUI lands in handleLogin's catch, which shows the error.
LoginInitializeAuthenticated(s, info, response) ==
    IF SetupAuthenticatedUIThrows(s)
        THEN Note(initializeAuthenticatedThrow(s),
                  "handleLogin", "threw", Some(response))
        ELSE Quiet(initializeAuthenticatedStart(s, info, "handleLogin",
                                                Some(response)))

\* The user submits the login form: every registered listener runs
\* handleLogin up to its await of login().
SubmitLogin(valid) ==
    /\ page = "login"
    /\ loginListeners >= 1
    /\ InFlight + loginListeners <= MaxTasks
    /\ IF valid
          THEN Commit(Quiet(SpawnN(ApiRequest(Cur),
                                   Task("handleLogin", "login", Undefined,
                                        "handleLogin", None),
                                   loginListeners)))
          ELSE Commit(Note(Cur, "handleLogin", "invalid", None))

\* login() rejected: api.login rethrows, handleLogin's catch shows the error
LoginThrew(t) ==
    Commit(Note(Resume(Cur, t), "handleLogin", "loginThrew", None))

\* login() resolved with response r
LoginResolved(t, r) ==
    LET s1 == Resume(Cur, t)
        \* ApiService.login
        s2 == IF r.success /\ IsSome(r.sessionId)
                 THEN ApiSetSessionId(s1, r.sessionId) ELSE s1
        \* handleLogin
        s3 == setSession(s2, r.sessionId, r.user)
        sum == Summary(r, s3.localStorage # s1.localStorage)
    IN IF IsSome(r.sessionInfo)
          THEN Commit(LoginInitializeAuthenticated(s3, Val(r.sessionInfo), sum))
          ELSE Commit(Quiet(Spawn(ApiRequest(s3),
                                  Task("handleLogin", "validateSession",
                                       Undefined, "handleLogin",
                                       Some(sum)))))

LoginReturns ==
    \E t \in Suspended("handleLogin", "login") :
        \/ LoginThrew(t)
        \/ \E r \in LoginResponses(Cur) : LoginResolved(t, r)

\* The follow-up validateSession() of handleLogin returns: on a rejection
\* api.validateSession clears the session id and sessionInfo stays undefined.
LoginValidateReturns ==
    \E t \in Suspended("handleLogin", "validateSession") :
        \/ Commit(LoginInitializeAuthenticated(
                      ApiSetSessionId(Resume(Cur, t), None), Undefined,
                      Val(t.response)))
        \/ \E v \in ValidateResponses :
              Commit(LoginInitializeAuthenticated(
                         Resume(Cur, t), InfoOf(v), Val(t.response)))

\* ------------------------------------------- App.initializeAuthenticated
\* Its own validateSession() returns: a rejection keeps the info it had
InitAuthValidateReturns ==
    \E t \in Suspended("initializeAuthenticated", "validateSession") :
        \/ Commit(Quiet(Spawn(ApiRequest(ApiSetSessionId(Resume(Cur, t), None)),
                              Task("initializeAuthenticated", "dashboard",
                                   t.info, t.caller, t.response))))
        \/ \E v \in ValidateResponses :
              Commit(Quiet(Spawn(ApiRequest(Resume(Cur, t)),
                                 Task("initializeAuthenticated", "dashboard",
                                      InfoOf(v), t.caller, t.response))))

\* A dashboard load that arms the timers with a fixed expiry, whatever
\* session info it holds
DashboardLoadedIgnoresInfo(t) ==
    /\ dashListeners < MaxListeners
    /\ nextTimerId + 1 <= MaxTimerIds
    /\ Commit(Note(showToast(startSessionManagement(
                                 setupDashboardListeners(Resume(Cur, t)),
                                 NumArg(LoginExpiry)),
                             "Welcome", "Successfully authenticated"),
                   t.caller, "authenticated", t.response))

\* Promise.all([getProfile(), getAccountStatus()]) resolved: the dashboard is
\* rendered, the listeners registered, the timers armed
DashboardLoaded(t) ==
    /\ dashListeners < MaxListeners
    /\ nextTimerId + 1 <= MaxTimerIds
    /\ Commit(Note(showToast(startSessionManagement(
                                 setupDashboardListeners(Resume(Cur, t)), t.info),
                             "Welcome", "Successfully authenticated"),
                   t.caller, "authenticated", t.response))

\* ... or rejected
DashboardFailed(t) ==
    /\ loginListeners < MaxListeners
    /\ Commit(Note(showToast(initializeUnauthenticated(Resume(Cur, t)),
                             "Error", "Failed to load dashboard"),
                   t.caller, "dashboardFailed", t.response))

InitAuthDashboardReturns ==
    \E t \in Suspended("initializeAuthenticated", "dashboard") :
        DashboardLoaded(t) \/ DashboardFailed(t)

\* ------------------------------------------------------------- App.init
\* validateSession() of init returns.  initializeAuthenticated is not awaited:
\* what it throws is an unhandled rejection.
InitValidateThrew(t) ==
    /\ loginListeners < MaxListeners
    /\ Commit(Note(initializeUnauthenticated(
                       ApiSetSessionId(Resume(Cur, t), None)),
                   "init", "validateThrew", None))

\* What the model keeps of the validate response init received: whether it
\* reported the session as not valid, and the expiresIn it carried.
ValidateSummary(v) ==
    [ failed |-> ~(v.success /\ IsSome(v.user)), persisted |-> FALSE,
      expiresIn |-> v.expiresIn ]

InitValidateResolved(t, v) ==
    LET s1 == Resume(Cur, t)
    IN IF SetupAuthenticatedUIThrows(s1)
          THEN Commit(Note(initializeAuthenticatedThrow(s1),
                           "init", "threw", Some(ValidateSummary(v))))
          ELSE Commit(Quiet(initializeAuthenticatedStart(
                                s1, InfoOf(v), "init",
                                Some(ValidateSummary(v)))))

InitValidateReturns ==
    \E t \in Suspended("init", "validateSession") :
        \/ InitValidateThrew(t)
        \/ \E v \in ValidateResponses : InitValidateResolved(t, v)

\* ------------------------------------------------------ App.handleLogout
\* The user clicks logout: every registered listener runs handleLogout up to
\* its await of logout().
ClickLogout ==
    /\ page = "dashboard"
    /\ dashListeners >= 1
    /\ InFlight + dashListeners <= MaxTasks
    /\ Commit(Quiet(SpawnN(ApiRequest(Cur),
                           Task("handleLogout", "logout", Undefined,
                                "handleLogout", None),
                           dashListeners)))

\* logout() resolved: api.logout cleared its session id, handleLogout clears
\* the session and shows the login page
LogoutResolved(t) ==
    /\ loginListeners < MaxListeners
    /\ Commit(Note(showToast(initializeUnauthenticated(
                                 clearSession(ApiSetSessionId(Resume(Cur, t), None))),
                             "Success", "Logged out successfully"),
                   "handleLogout", "resolved", None))

\* logout() rejected: api.logout cleared its session id and rethrew,
\* handleLogout's catch shows the failure
LogoutRejected(t) ==
    Commit(Note(showToast(ApiSetSessionId(Resume(Cur, t), None),
                          "Error", "Logout failed"),
                "handleLogout", "rejected", None))

LogoutReturns ==
    \E t \in Suspended("handleLogout", "logout") :
        LogoutResolved(t) \/ LogoutRejected(t)

\* ------------------------------------------------------------ timer ticks
Due(kind) == {t \in timers : t.kind = kind /\ t.due <= now}
Rearm(s, t, period) ==
    [s EXCEPT !.timers = (@ \ {t}) \cup {[t EXCEPT !.due = s.now + period]}]

\* A countdown that calls onExpire and keeps its interval
CountdownExpiresNoCancel(t) ==
    /\ t.expiresAt - now <= 0
    /\ loginListeners < MaxListeners
    /\ Commit(Note(handleSessionExpired(Rearm(Cur, t, TICK_MS)),
                   "countdown", "onExpire", None))

\* The countdown's interval callback (startSessionTimer), with the callbacks
\* App.startSessionManagement gave it
CountdownExpires(t) ==
    /\ t.expiresAt - now <= 0
    /\ loginListeners < MaxListeners
    /\ Commit(Note(handleSessionExpired(
                       [Cur EXCEPT !.timers = @ \ {t}]),
                   "countdown", "onExpire", None))

CountdownWarns(t) ==
    /\ t.expiresAt - now > 0
    /\ t.expiresAt - now <= warningTime
    /\ Commit(Note(showSessionWarning(Rearm(Cur, t, TICK_MS),
                                      Ceil(t.expiresAt - now, MS_PER_MINUTE)),
                   "countdown", "onWarning", None))

CountdownIdles(t) ==
    /\ t.expiresAt - now > warningTime
    /\ Commit(Note(Rearm(Cur, t, TICK_MS), "countdown", "idle", None))

CountdownTick ==
    \E t \in Due("countdown") :
        CountdownExpires(t) \/ CountdownWarns(t) \/ CountdownIdles(t)

\* The auto-refresh interval callback up to its await of refreshSession()
RefreshTick ==
    \E t \in Due("refresh") :
        /\ InFlight < MaxTasks
        /\ Commit(Quiet(Spawn(ApiRequest(Rearm(Cur, t, refreshInterval)),
                              Task("autoRefresh", "refreshSession", Undefined,
                                   "autoRefresh", None))))

\* refreshSession() resolved with success: onSuccess
RefreshSucceeded(t) ==
    Commit(Note(showToast(Resume(Cur, t), "Session Refreshed",
                          "Your session has been extended"),
                "autoRefresh", "onSuccess", None))

\* A failed refresh that also stops the refresh interval
RefreshFailedStops(t) ==
    /\ loginListeners < MaxListeners
    /\ Commit(Note(handleSessionExpired(
                       clearTimer(Resume(Cur, t), autoRefreshTimer)),
                   "autoRefresh", "onError", None))

\* refreshSession() rejected or resolved without success: onError, which
\* App.startSessionManagement set to handleSessionExpired
RefreshFailed(t) ==
    /\ loginListeners < MaxListeners
    /\ Commit(Note(handleSessionExpired(Resume(Cur, t)),
                   "autoRefresh", "onError", None))

RefreshReturns ==
    \E t \in Suspended("autoRefresh", "refreshSession") :
        RefreshSucceeded(t) \/ RefreshFailed(t)

\* ----------------------------------------------- password change (app.js)
\* The fields of a submitted password form (currentPassword: absent on the
\* dashboard's form)
Fields(currentPassword, newPassword, confirmPassword) ==
    [ currentPassword |-> currentPassword, newPassword |-> newPassword,
      confirmPassword |-> confirmPassword ]

\* What the user submits on the dashboard's form: a new password and its
\* confirmation, well-formed, both empty, both too short, or different
PasswordForms ==
    { Fields(None, "longenough1", "longenough1"), Fields(None, "", ""),
      Fields(None, "short1", "short1"), Fields(None, "short1", "longenough1") }

\* ... and on the change-password page's form, which also asks for the
\* current password
ChangePasswordForms ==
    { Fields(Some("old"), "longenough1", "longenough1"),
      Fields(Some(""), "longenough1", "longenough1"),
      Fields(Some("old"), "", ""),
      Fields(Some("old"), "short1", "short1"),
      Fields(Some("old"), "short1", "longenough1") }

\* The user submits a password form on a dashboard at rest: no request in
\* flight, no forced logout pending
PasswordChangeIdle ==
    /\ InFlight = 0
    /\ ActiveKind("forcedLogout") = {}

\* setTimeout(() => this.handleLogout(), delay)
scheduleLogout(s, delay) ==
    [s EXCEPT !.timers = @ \cup { Interval(s.nextTimerId, "forcedLogout", 0,
                                           s.now + delay) },
              !.nextTimerId = @ + 1]

\* The user submits the dashboard's password form: every listener
\* setupDashboardListeners registered runs handlePasswordChange up to its
\* await of changePassword(), or to its return on a mismatch.
SubmitPasswordChange(f) ==
    /\ page = "dashboard"
    /\ dashListeners >= 1
    /\ PasswordChangeIdle
    /\ InFlight + dashListeners <= MaxTasks
    /\ IF f.newPassword # f.confirmPassword
          THEN Commit(Note(Cur, "handlePasswordChange", "validationError",
                           Some(f)))
          ELSE Commit(Note(SpawnN(ApiRequest(Cur),
                                  Task("handlePasswordChange", "changePassword",
                                       Undefined, "handlePasswordChange", None),
                                  dashListeners),
                           "handlePasswordChange", "requested", Some(f)))

\* changePassword() resolved, whatever the response says: the logout is
\* scheduled
PasswordChangeResolved(t, success) ==
    /\ nextTimerId <= MaxTimerIds
    /\ Commit(NoteInput(scheduleLogout(Resume(Cur, t), PASSWORD_LOGOUT_DELAY_MS),
                        "handlePasswordChange",
                        IF success THEN "success" ELSE "unsuccessful",
                        "scheduled"))

\* ... or rejected: the catch shows the error
PasswordChangeRejected(t) ==
    Commit(NoteInput(Resume(Cur, t), "handlePasswordChange", "rejected",
                     "failed"))

PasswordChangeReturns ==
    \E t \in Suspended("handlePasswordChange", "changePassword") :
        \/ \E success \in BOOLEAN : PasswordChangeResolved(t, success)
        \/ PasswordChangeRejected(t)

\* The user submits the change-password page's form: the one listener
\* setupGlobalListeners registered runs handleChangePasswordForm.
SubmitChangePasswordForm(f) ==
    /\ page = "dashboard"
    /\ PasswordChangeIdle
    /\ InFlight < MaxTasks
    /\ IF \/ Val(f.currentPassword) = ""
          \/ f.newPassword = ""
          \/ f.confirmPassword = ""
          \/ f.newPassword # f.confirmPassword
          THEN Commit(Note(Cur, "handleChangePasswordForm",
                           "validationError", Some(f)))
          ELSE Commit(Note(Spawn(ApiRequest(Cur),
                                 Task("handleChangePasswordForm",
                                      "changePassword", Undefined,
                                      "handleChangePasswordForm", None)),
                           "handleChangePasswordForm", "requested", Some(f)))

\* changePassword() resolved with response.success
ChangePasswordFormSucceeded(t) ==
    /\ nextTimerId <= MaxTimerIds
    /\ Commit(NoteInput(scheduleLogout(Resume(Cur, t), FORM_LOGOUT_DELAY_MS),
                        "handleChangePasswordForm", "success", "scheduled"))

\* ... resolved without success, or rejected: the error is shown
ChangePasswordFormFailed(t, remote) ==
    Commit(NoteInput(Resume(Cur, t), "handleChangePasswordForm", remote,
                     "failed"))

ChangePasswordFormReturns ==
    \E t \in Suspended("handleChangePasswordForm", "changePassword") :
        \/ ChangePasswordFormSucceeded(t)
        \/ \E remote \in {"unsuccessful", "rejected"} :
              ChangePasswordFormFailed(t, remote)

\* The scheduled timeout fires: handleLogout up to its await of logout()
ForcedLogoutTimeout ==
    \E t \in Due("forcedLogout") :
        /\ InFlight < MaxTasks
        /\ Commit(Quiet(Spawn(ApiRequest([Cur EXCEPT !.timers = @ \ {t}]),
                              Task("handleLogout", "logout", Undefined,
                                   "handleLogout", None))))

\* ------------------------------------------------- AuthUtils (utils/auth.js)
\* AuthUtils.showAlert(message, type)
showAlert(s, message) == [s EXCEPT !.toast = << "alert", message >>]

\* AuthUtils.isAuthenticated(): a session id is stored and a user is held
AuthIsAuthenticated == IsSome(localStorage.sessionId) /\ IsSome(authCurrentUser)

\* AuthUtils.setCurrentUser(user)
setCurrentUser(s, user) ==
    [s EXCEPT !.authCurrentUser = user,
              !.localStorage.currentUser =
                  IF IsSome(user) THEN Some(JSONstringify(Val(user))) ELSE None]

\* AuthUtils.setSessionId(sessionId): the store only, not the request layer
AuthSetSessionId(s, sessionId) ==
    [s EXCEPT !.localStorage.sessionId = sessionId]

\* The cancellation AuthUtils.startSessionTimer starts with
AuthClearExistingTimer(s) == clearTimer(s, s.authSessionTimer)

\* AuthUtils.startSessionTimer(): the 1 s display interval
AuthStartSessionTimer(s) ==
    LET s1 == AuthClearExistingTimer(s)
    IN [s1 EXCEPT !.timers = @ \cup { Interval(s1.nextTimerId, "display", 0,
                                               s1.now + TICK_MS) },
                  !.authSessionTimer = Some(s1.nextTimerId),
                  !.nextTimerId = @ + 1]

\* AuthUtils.setSessionExpiration(expiresAt)
setSessionExpiration(s, expiresAt) ==
    AuthStartSessionTimer([s EXCEPT !.authSessionExpiresAt = Some(expiresAt)])

\* AuthUtils.handleSessionExpired(): stops the display interval, shows the
\* alert and schedules logout() in 2 s
AuthHandleSessionExpired(s) ==
    LET s1 == showAlert(clearTimer(s, s.authSessionTimer),
                        "Your session has expired. Please login again.")
    IN [s1 EXCEPT !.timers = @ \cup { Interval(s1.nextTimerId, "authLogout", 0,
                                               s1.now + AUTH_LOGOUT_DELAY_MS) },
                  !.nextTimerId = @ + 1]

\* AuthUtils.cleanup()
cleanup(s) ==
    LET s1 == [clearTimer(s, s.authSessionTimer)
                  EXCEPT !.authCurrentUser = None,
                         !.authSessionExpiresAt = None,
                         !.authSessionTimer = None]
    IN [AuthSetSessionId(s1, None) EXCEPT !.localStorage.currentUser = None]

\* A validateSession that looks at the success flag only
ValidateResultSuccessOnly(v) == v.success

\* What AuthUtils.validateSession returns for a response that resolved
ValidateResult(v) == v.success /\ IsSome(v.user)

\* How the model names what the remote validate call did
ValidateRemote(v) ==
    IF ~v.success THEN "unsuccessful"
    ELSE IF ~IsSome(v.user) THEN "noUser" ELSE "valid"

\* AuthUtils.validateSession() after its await, for a response that resolved
AuthValidateResolved(s, v) ==
    IF ValidateResult(v)
        THEN NoteInput(setCurrentUser(s, v.user),
                        "auth.validateSession", ValidateRemote(v), "true")
        ELSE NoteInput(cleanup(s),
                        "auth.validateSession", ValidateRemote(v), "false")

\* ... and for a rejection: api.validateSession cleared its session id and
\* rethrew, the catch cleans up and returns false
AuthValidateRejected(s) ==
    NoteInput(cleanup(ApiSetSessionId(s, None)),
               "auth.validateSession", "rejected", "false")

\* AuthUtils.logout() after its await: api.logout cleared its session id
\* whether it resolved or rejected; the finally block cleans up
AuthLogoutSettled(s, remote) ==
    NoteInput(cleanup(ApiSetSessionId(s, None)), "auth.logout", remote, "cleaned")

\* A login response as AuthUtils.login reads it: {success, sessionId, user,
\* expiresAt?}
AuthLoginResponses(s) ==
    { [ success |-> FALSE, sessionId |-> None, user |-> None, expiresAt |-> None ] }
    \cup { [ success |-> TRUE, sessionId |-> Some(id), user |-> Some(u),
             expiresAt |-> e ] :
             id \in FreshIds(s), u \in Users,
             e \in { None, Some(s.now + ShortExpiry * MS_PER_SECOND),
                     Some(s.now + LongExpiry * MS_PER_SECOND) } }

\* AuthUtils.login() after its await, for a response that resolved
AuthLoginResolved(s, r) ==
    LET s1 == IF r.success /\ IsSome(r.sessionId)
                 THEN ApiSetSessionId(s, r.sessionId) ELSE s
    IN IF r.success
          THEN LET s2 == setCurrentUser(s1, r.user)
               IN NoteInput(IF IsSome(r.expiresAt)
                                THEN setSessionExpiration(s2, Val(r.expiresAt))
                                ELSE s2,
                             "auth.login", "success", "returned")
          ELSE NoteInput(s1, "auth.login", "unsuccessful", "threw")

\* ------------------------------- the older controller's handlers and timers
\* auth.login(), auth.logout(), auth.validateSession() up to their await
AuthCall(kind, pc) ==
    /\ InFlight < MaxTasks
    /\ Commit(Quiet(Spawn(ApiRequest(Cur), Task(kind, pc, Undefined, kind, None))))

AuthLogin == AuthCall("auth.login", "login")

AuthLogout == AuthCall("auth.logout", "logout")

\* App.checkSession() validates only when a session id is persisted
AuthValidate ==
    /\ IsSome(ApiGetSessionId(Cur).apiSessionId)
    /\ AuthCall("auth.validateSession", "validateSession")

AuthLoginReturns ==
    \E t \in Suspended("auth.login", "login") :
        \/ Commit(NoteInput(Resume(Cur, t), "auth.login", "rejected", "threw"))
        \/ \E r \in AuthLoginResponses(Cur) :
              /\ nextTimerId <= MaxTimerIds
              /\ Commit(AuthLoginResolved(Resume(Cur, t), r))

AuthLogoutReturns ==
    \E t \in Suspended("auth.logout", "logout") :
        \E remote \in {"resolved", "rejected"} :
            Commit(AuthLogoutSettled(Resume(Cur, t), remote))

AuthValidateReturns ==
    \E t \in Suspended("auth.validateSession", "validateSession") :
        \/ Commit(AuthValidateRejected(Resume(Cur, t)))
        \/ \E v \in ValidateResponses : Commit(AuthValidateResolved(Resume(Cur, t), v))

\* AuthUtils.updateSessionDisplay(), the display interval's callback
AuthDisplayExpires(t) ==
    /\ IsSome(authSessionExpiresAt)
    /\ Val(authSessionExpiresAt) - now <= 0
    /\ nextTimerId <= MaxTimerIds
    /\ Commit(NoteInput(AuthHandleSessionExpired(Rearm(Cur, t, TICK_MS)),
                         "auth.updateSessionDisplay", "", "expired"))

AuthDisplayShows(t) ==
    /\ IF IsSome(authSessionExpiresAt)
          THEN Val(authSessionExpiresAt) - now > 0 ELSE TRUE
    /\ Commit(NoteInput(Rearm(Cur, t, TICK_MS),
                         "auth.updateSessionDisplay", "", "shown"))

AuthDisplayTick ==
    \E t \in Due("display") : AuthDisplayExpires(t) \/ AuthDisplayShows(t)

\* The timeout AuthUtils.handleSessionExpired set fires: logout() up to its
\* await
AuthLogoutTimeout ==
    \E t \in Due("authLogout") :
        /\ InFlight < MaxTasks
        /\ Commit(NoteInput(Spawn(ApiRequest([Cur EXCEPT !.timers = @ \ {t}]),
                                   Task("auth.logout", "logout", Undefined,
                                        "auth.handleSessionExpired", None)),
                             "auth.handleSessionExpired", "", "logoutCalled"))

\* ------------------------------------------------------------ time
TimeSteps == {warningTime}

\* Time passes.  Without a timer nothing reads the clock but the expiry
\* metadata of a response, which is relative to it.
Advance ==
    /\ timers # {}
    /\ \E d \in TimeSteps :
          /\ now + d <= MaxTime
          /\ now' = now + d
    /\ UNCHANGED << localStorage, apiSessionId, isAuthenticated, sessionTimer,
                    autoRefreshTimer, authCurrentUser, authSessionTimer,
                    authSessionExpiresAt, timers, nextTimerId, tasks,
                    loginListeners, dashListeners, page, toast,
                    sessionAlert, last >>

Next ==
    \/ \E valid \in BOOLEAN : SubmitLogin(valid)
    \/ LoginReturns
    \/ LoginValidateReturns
    \/ InitAuthValidateReturns
    \/ InitAuthDashboardReturns
    \/ InitValidateReturns
    \/ ClickLogout
    \/ LogoutReturns
    \/ CountdownTick
    \/ RefreshTick
    \/ RefreshReturns
    \/ Reload
    \/ Advance

Spec == Init /\ [][Next]_vars

\* The controller with its password forms in use
NextPassword ==
    \/ \E valid \in BOOLEAN : SubmitLogin(valid)
    \/ LoginReturns
    \/ LoginValidateReturns
    \/ InitAuthValidateReturns
    \/ InitAuthDashboardReturns
    \/ ClickLogout
    \/ LogoutReturns
    \/ \E f \in PasswordForms : SubmitPasswordChange(f)
    \/ PasswordChangeReturns
    \/ \E f \in ChangePasswordForms : SubmitChangePasswordForm(f)
    \/ ChangePasswordFormReturns
    \/ ForcedLogoutTimeout
    \/ Advance

SpecPassword == Init /\ [][NextPassword]_vars

\* The older controller: AuthUtils driven by its App's handlers
NextAuth ==
    \/ AuthLogin
    \/ AuthLoginReturns
    \/ AuthLogout
    \/ AuthLogoutReturns
    \/ AuthValidate
    \/ AuthValidateReturns
    \/ AuthDisplayTick
    \/ AuthLogoutTimeout
    \/ Advance

SpecAuth == Init /\ [][NextAuth]_vars

\* ------------------------------------------- the timer coordinator, called
\* What the arming calls are handed: a number of seconds, an object with one
\* of the expiry properties, or nothing
ArmInputs ==
    { Undefined }
    \cup { NumArg(n) : n \in {PastExpiry, 0, ShortExpiry, OddExpiry, LongExpiry,
                               ExtendedExpiry} }
    \cup { ObjArg(Some(LongExpiry), None, None),
           ObjArg(Some(PastExpiry), None, None),
           ObjArg(None, Some(ShortExpiry), None),
           ObjArg(None, None, Some(now + LongExpiry * MS_PER_SECOND)),
           ObjArg(None, None, Some(now - ShortExpiry * MS_PER_SECOND)) }

ExpiryClass(e) ==
    IF ~IsSome(e) THEN "unknown"
    ELSE IF Val(e) < 0 THEN "negative"
    ELSE IF Val(e) = 0 THEN "zero" ELSE "positive"

\* app.startSessionManagement(arg)
CallStartSessionManagement ==
    \E arg \in ArmInputs :
        /\ nextTimerId + 1 <= MaxTimerIds
        /\ Commit(NoteInput(startSessionManagement(Cur, arg),
                            "startSessionManagement",
                            ExpiryClass(getExpiresInSeconds(arg, now)),
                            IF NoExpiry(getExpiresInSeconds(arg, now))
                               THEN "unarmed" ELSE "armed"))

\* auth.setSessionExpiration(expiresAt)
CallSetSessionExpiration ==
    \E e \in {now, now + ShortExpiry * MS_PER_SECOND, now + LongExpiry * MS_PER_SECOND} :
        /\ nextTimerId <= MaxTimerIds
        /\ Commit(NoteInput(setSessionExpiration(Cur, e),
                            "auth.setSessionExpiration", "", "armed"))

\* auth.startSessionTimer()
CallAuthStartSessionTimer ==
    /\ nextTimerId <= MaxTimerIds
    /\ Commit(NoteInput(AuthStartSessionTimer(Cur),
                        "auth.startSessionTimer", "", "armed"))

NextTimers ==
    \/ CallStartSessionManagement
    \/ CallSetSessionExpiration
    \/ CallAuthStartSessionTimer
    \/ CountdownTick
    \/ RefreshTick
    \/ RefreshReturns
    \/ AuthDisplayTick
    \/ AuthLogoutTimeout
    \/ AuthLogoutReturns
    \/ Advance

SpecTimers == Init /\ [][NextTimers]_vars

\* ------------------------------------------------ the session store, called
\* What localStorage can hold when the page's script starts: any id or none;
\* no user, an empty string, text that is no JSON, or a stored user
CorruptJson == "{not-json"
StoredUsers ==
    {None, Some(""), Some(CorruptJson)} \cup {Some(JSONstringify(u)) : u \in Users}
StoreStates ==
    { [sessionId |-> i, currentUser |-> c] :
        i \in {None} \cup {Some(x) : x \in SessionIds}, c \in StoredUsers }

InitStore ==
    \E st \in StoreStates :
        Start([LoadPage(EmptyStorage) EXCEPT !.localStorage = st])

\* A call of a store function: the store before it, its arguments, its result
StoreCall(before, sessionId, user, result) ==
    [ before |-> before, sessionId |-> sessionId, user |-> user,
      result |-> result ]

\* getSession()
CallGetSession ==
    Commit(Note(Cur, "getSession", "returned",
                Some(StoreCall(localStorage, None, None, getSession(Cur)))))

\* setSession(sessionId, user), each argument given or falsy
CallSetSession ==
    \E i \in {None} \cup {Some(x) : x \in SessionIds},
       u \in {None} \cup {Some(x) : x \in Users} :
        Commit(Note(setSession(Cur, i, u), "setSession", "returned",
                    Some(StoreCall(localStorage, i, u, None))))

\* clearSession()
CallClearSession ==
    Commit(Note(clearSession(Cur), "clearSession", "returned",
                Some(StoreCall(localStorage, None, None, None))))

NextStore ==
    \/ CallGetSession
    \/ CallSetSession
    \/ CallClearSession

SpecStore == InitStore /\ [][NextStore]_vars

\* ===================================================== properties
\* A handler run has settled when the record of the last run carries its
\* outcome.
Settled(op, outcomes) == last.op = op /\ last.outcome \in outcomes

\* ---- C1: every logout, whether the remote call succeeded or failed, ends
\* with both persisted fields removed and the controller unauthenticated.
\* App.handleLogout does neither when the remote call rejects.
C1_LogoutAlwaysClears ==
    /\ Settled("handleLogout", {"resolved", "rejected"})
          => /\ localStorage = EmptyStorage
             /\ ~isAuthenticated
    /\ Settled("auth.logout", {"cleaned"})
          => /\ localStorage = EmptyStorage
             /\ ~AuthIsAuthenticated

\* ---- C2: a login whose remote call threw, or answered with success false
\* or without a session id, leaves the controller unauthenticated and has
\* persisted nothing.  handleLogin never looks at success.
C2_FailedLoginStaysOut ==
    /\ Settled("handleLogin", {"loginThrew"}) => ~isAuthenticated
    /\ Settled("handleLogin", {"threw", "authenticated", "dashboardFailed"})
          => IF Val(last.response).failed
                THEN ~isAuthenticated /\ ~Val(last.response).persisted
                ELSE TRUE

\* ---- C3: a validate call for a persisted session that failed or came
\* without a user leaves getSession() null and the controller
\* unauthenticated, in AuthUtils.validateSession and in the page load.
\* App.init goes on to the dashboard on any response that resolved.
C3_InvalidSessionCleared ==
    /\ (last.op = "auth.validateSession" /\ last.input # "valid")
          => /\ ~IsSome(getSession(Cur))
             /\ ~AuthIsAuthenticated
    /\ Settled("init", {"validateThrew"})
          => /\ ~IsSome(getSession(Cur))
             /\ ~isAuthenticated
    /\ Settled("init", {"threw", "authenticated", "dashboardFailed"})
          => IF Val(last.response).failed
                THEN ~IsSome(getSession(Cur)) /\ ~isAuthenticated
                ELSE TRUE

\* ---- C4: AuthUtils.validateSession returns a boolean whatever the remote
\* call did (resolved valid, resolved unsuccessful or without a user,
\* rejected), and true exactly when the response was successful and carried
\* a user.
C4_ValidateReturnsBoolean ==
    last.op = "auth.validateSession"
       => /\ last.outcome \in {"true", "false"}
          /\ last.outcome = "true" <=> last.input = "valid"

\* validateSession has returned false for a remote call that rejected
C4_Witness ==
    /\ last.op = "auth.validateSession"
    /\ last.input = "rejected"
    /\ last.outcome = "false"

\* ---- C5: at most one countdown, one auto-refresh and one display interval
\* are active, each the one whose handle the controller holds, and an arming
\* with a known expiry leaves exactly one countdown and one auto-refresh
\* however many armings came before.
C5_OneTimerPerKind ==
    /\ \A k \in {"countdown", "refresh", "display"} :
          Cardinality(ActiveKind(k)) <= 1
    /\ \A t \in ActiveKind("countdown") : sessionTimer = Some(t.id)
    /\ \A t \in ActiveKind("refresh") : autoRefreshTimer = Some(t.id)
    /\ \A t \in ActiveKind("display") : authSessionTimer = Some(t.id)
    /\ Settled("startSessionManagement", {"armed"})
          => /\ Cardinality(ActiveKind("countdown")) = 1
             /\ Cardinality(ActiveKind("refresh")) = 1

\* startSessionManagement has armed for the second time in succession: the
\* first two timer ids went to its first arming (no expiry notice was shown
\* and the older controller never armed), the active timers are the second
\* pair.
C5_Witness ==
    /\ Settled("startSessionManagement", {"armed"})
    /\ toast = << "", "" >>
    /\ authSessionTimer = None
    /\ sessionTimer = Some(3)
    /\ autoRefreshTimer = Some(4)
    /\ {t.id : t \in timers} = {3, 4}

\* ---- C6: once handleLogout or handleSessionExpired has completed, neither
\* the countdown nor the auto-refresh interval is active.  Neither handler
\* clears an interval.
C6_TimersStoppedAfterCleanup ==
    \/ Settled("handleLogout", {"resolved", "rejected"})
    \/ Settled("countdown", {"onExpire"})
    \/ Settled("autoRefresh", {"onError"})
    => ActiveKind("countdown") \cup ActiveKind("refresh") = {}

\* ---- C7: a countdown or auto-refresh tick while the controller is
\* unauthenticated changes neither the persisted fields nor the flag nor the
\* notices shown.  The callbacks act without looking at the flag.
C7_StrayTickIsNoOp ==
    [][ (~isAuthenticated /\ (CountdownTick \/ RefreshTick \/ RefreshReturns))
           => UNCHANGED << localStorage, isAuthenticated, toast, sessionAlert >>
      ]_vars

\* ---- C8: a negative number of seconds handed to startSessionManagement
\* leaves a countdown whose deadline has passed, so that the first tick calls
\* onExpire.  startSessionManagement returns before arming anything.
C8_NegativeExpiryFires ==
    (last.op = "startSessionManagement" /\ last.input = "negative")
       => \E t \in ActiveKind("countdown") :
             /\ sessionTimer = Some(t.id)
             /\ t.expiresAt <= now

\* ---- C9: after a login whose response carried expiresIn = N the session
\* is persisted and the countdown runs to N seconds from the arming.
\* handleLogin reads response.sessionInfo only.
C9_LoginExpiryArmsCountdown ==
    Settled("handleLogin", {"authenticated"})
       => IF ~Val(last.response).failed /\ IsSome(Val(last.response).expiresIn)
             THEN /\ IsSome(getSession(Cur))
                  /\ \E t \in ActiveKind("countdown") :
                        /\ sessionTimer = Some(t.id)
                        /\ t.expiresAt =
                              now + Val(Val(last.response).expiresIn) * MS_PER_SECOND
             ELSE TRUE

\* ---- C10: when a countdown has reached its deadline the session is gone
\* from the store, the controller is unauthenticated, the notice is the
\* session-expired one and no remote logout is called, then or later.
\* AuthUtils.handleSessionExpired leaves the session and calls logout() 2 s on.
C10_ExpiryCleansUpLocally ==
    /\ Settled("countdown", {"onExpire"})
          => /\ ~IsSome(getSession(Cur))
             /\ ~isAuthenticated
             /\ toast = << "Session Expired", "Please login again" >>
    /\ Settled("auth.updateSessionDisplay", {"expired"})
          => /\ ~IsSome(getSession(Cur))
             /\ ~AuthIsAuthenticated
             /\ toast = << "alert", "Your session has expired. Please login again." >>
             /\ ActiveKind("authLogout") = {}
    /\ last.op = "auth.handleSessionExpired"
          => Suspended("auth.logout", "logout") = {}

\* ---- C11: every password change that went through leaves exactly one
\* forced logout scheduled for the user's one submission.  After a second
\* login on the same page the dashboard's form has two listeners, and each
\* run schedules its own.
C11_OneForcedLogoutPerChange ==
    \/ Settled("handlePasswordChange", {"scheduled"})
    \/ Settled("handleChangePasswordForm", {"scheduled"})
    => Cardinality(ActiveKind("forcedLogout")) = 1

\* ---- C12: getSession() returns null exactly when no session id is stored;
\* with an id stored it returns that id and the stored user, or a null user
\* when none is stored or the stored text does not parse.
C12_GetSessionShape ==
    last.op = "getSession"
       => LET c == Val(last.response)
          IN /\ ~IsSome(c.result) <=> ~IsSome(c.before.sessionId)
             /\ IsSome(c.result)
                   => /\ Val(c.result).sessionId = Val(c.before.sessionId)
                      /\ \A u \in Users :
                            c.before.currentUser = Some(JSONstringify(u))
                               => Val(c.result).user = Some(u)
                      /\ (\A u \in Users :
                             c.before.currentUser # Some(JSONstringify(u)))
                               => Val(c.result).user = None

\* getSession() was called with an id stored next to text that is no JSON
C12_Witness ==
    /\ last.op = "getSession"
    /\ IsSome(Val(last.response).before.sessionId)
    /\ Val(last.response).before.currentUser = Some(CorruptJson)
    /\ IsSome(Val(last.response).result)

\* ---- C13: setSession without a session id leaves the stored id as it was;
\* with an id and a user it stores both, and getSession() returns them.
C13_SetSessionKeepsId ==
    last.op = "setSession"
       => LET c == Val(last.response)
          IN /\ ~IsSome(c.sessionId)
                   => localStorage.sessionId = c.before.sessionId
             /\ (IsSome(c.sessionId) /\ IsSome(c.user))
                   => getSession(Cur)
                         = Some([sessionId |-> Val(c.sessionId), user |-> c.user])

\* setSession was called without an id while one was stored
C13_Witness ==
    /\ last.op = "setSession"
    /\ ~IsSome(Val(last.response).sessionId)
    /\ IsSome(Val(last.response).before.sessionId)
    /\ IsSome(localStorage.sessionId)

\* ---- C14: clearSession() leaves the store empty whatever it held, and
\* from then on getSession() is null until a setSession with a session id.
C14_ClearedUntilSet ==
    [][ /\ last'.op = "clearSession"
           => (localStorage' = EmptyStorage /\ ~IsSome(getSession(Cur)'))
        /\ (~IsSome(getSession(Cur)) /\ IsSome(getSession(Cur)'))
           => (last'.op = "setSession" /\ IsSome(Val(last'.response).sessionId))
      ]_vars

\* clearSession() was called on a store that held an id and a user
C14_Witness ==
    /\ last.op = "clearSession"
    /\ IsSome(Val(last.response).before.sessionId)
    /\ IsSome(Val(last.response).before.currentUser)
    /\ localStorage = EmptyStorage

\* The step is a tick of countdown t
CountdownTicked(t) ==
    CountdownExpires(t) \/ CountdownWarns(t) \/ CountdownIdles(t)

TimerIds(ts) == {t.id : t \in ts}

\* ---- C15: a countdown that calls onExpire has cancelled itself, a timer id
\* once gone never comes back, and onExpire or onWarning is called by the
\* tick of an active countdown only: so each countdown expires at most once
\* and is silent after its expiry or cancellation.
C15_CountdownExpiresOnce ==
    [][ /\ \A t \in ActiveKind("countdown") :
              CountdownExpires(t) => t.id \notin TimerIds(timers')
        /\ \A i \in TimerIds(timers') \ TimerIds(timers) :
              i >= nextTimerId /\ i < nextTimerId'
        /\ (last'.op = "countdown" /\ last'.outcome \in {"onExpire", "onWarning"}
               /\ last' # last)
              => \E t \in ActiveKind("countdown") : CountdownTicked(t)
      ]_vars

\* A countdown has called onExpire and is gone
C15_Witness ==
    /\ Settled("countdown", {"onExpire"})
    /\ IsSome(sessionTimer)
    /\ Val(sessionTimer) \notin TimerIds(timers)

\* ---- C16: a countdown tick with 0 < remaining <= 5 min calls onWarning
\* with the remaining time in minutes, rounded up; a tick with more than
\* 5 min remaining calls nothing.
C16_WarningMinutes ==
    [][ \A t \in ActiveKind("countdown") :
           CountdownTicked(t)
              => LET remaining == t.expiresAt - now
                 IN /\ (0 < remaining /\ remaining <= 5 * 60 * 1000)
                       => /\ last'.outcome = "onWarning"
                          /\ \E m \in 1..5 :
                                /\ sessionAlert' = Some(m)
                                /\ (m - 1) * 60 * 1000 < remaining
                                /\ remaining <= m * 60 * 1000
                    /\ remaining > 5 * 60 * 1000
                       => /\ last'.outcome = "idle"
                          /\ UNCHANGED << sessionAlert, toast, localStorage,
                                          isAuthenticated, page >>
      ]_vars

\* onWarning(2) was called with 89 s remaining
C16_Witness ==
    /\ Settled("countdown", {"onWarning"})
    /\ sessionAlert = Some(2)
    /\ \E t \in ActiveKind("countdown") : t.expiresAt - now = 89000

\* ---- C17: an auto-refresh tick sends one refresh request and leaves its
\* interval armed; the request's return calls onSuccess or onError, sends no
\* further request and leaves the refresh interval as it was.
C17_RefreshTickOnce ==
    [][ /\ RefreshTick
           => /\ BagCardinality(tasks') = BagCardinality(tasks) + 1
              /\ TimerIds(ActiveKind("refresh")') = TimerIds(ActiveKind("refresh"))
        /\ \A k \in Suspended("autoRefresh", "refreshSession") :
              (RefreshSucceeded(k) \/ RefreshFailed(k))
                 => /\ last'.op = "autoRefresh"
                    /\ last'.outcome \in {"onSuccess", "onError"}
                    /\ BagCardinality(tasks') = BagCardinality(tasks) - 1
                    /\ ActiveKind("refresh")' = ActiveKind("refresh")
      ]_vars

\* A refresh has failed and its interval is still armed
C17_Witness ==
    /\ Settled("autoRefresh", {"onError"})
    /\ \E t \in ActiveKind("refresh") : autoRefreshTimer = Some(t.id)

\* ---- C19: a successful auto-refresh moves the deadline of a countdown
\* that has not yet expired to a later time.  onSuccess only shows a toast.
C19_RefreshExtendsDeadline ==
    [][ \A k \in Suspended("autoRefresh", "refreshSession") :
           RefreshSucceeded(k)
              => \A b \in ActiveKind("countdown") :
                    b.expiresAt > now
                       => \E c \in ActiveKind("countdown")' :
                             c.id = b.id /\ c.expiresAt > b.expiresAt
      ]_vars

\* ---- C18: a login whose dashboard loads with session info that carries
\* no expiry ends authenticated, with the session persisted and no countdown
\* armed.
C18_NoExpiryLoginCompletes ==
    [][ \A t \in Suspended("initializeAuthenticated", "dashboard") :
           (/\ DashboardLoaded(t)
            /\ t.caller = "handleLogin"
            /\ ~IsSome(getExpiresInSeconds(t.info, now)))
              => /\ isAuthenticated'
                 /\ IsSome(getSession(Cur)')
                 /\ ActiveKind("countdown")' = {}
      ]_vars

\* ---- C20: a password form with an empty field, with a new password that
\* differs from its confirmation or with a new password shorter than 8
\* characters ends in a validation error and sends no request, whichever
\* handler submits it.
C20_InvalidFormNeverSent ==
    LET f == Val(last.response)
        invalid ==
            \/ f.currentPassword = Some("")
            \/ f.newPassword = ""
            \/ f.confirmPassword = ""
            \/ f.newPassword # f.confirmPassword
            \/ Len(f.newPassword) < 8
    IN (/\ last.op \in {"handlePasswordChange", "handleChangePasswordForm"}
        /\ last.outcome \in {"validationError", "requested"}
        /\ invalid)
          => (last.outcome = "validationError" /\ InFlight = 0)

\* ---- C21: whenever no login, logout or validate call is in flight, the
\* controller's flag is true exactly when a session id is persisted.
C21_FlagAgreesWithStore ==
    (\A t \in BagToSet(tasks) : t.pc \notin {"login", "logout", "validateSession"})
       => (isAuthenticated <=> IsSome(getSession(Cur)))

\* The step adds a suspended run of a login at the await of the dashboard
\* data, the last await before the timers are armed
AwaitsDashboard(d) ==
    /\ d.kind = "initializeAuthenticated"
    /\ d.pc = "dashboard"
    /\ d.caller = "handleLogin"
    /\ CopiesIn(d, tasks') > CopiesIn(d, tasks)

\* ---- C22: a login arms its timers in the step that ends
\* initializeAuthenticated and in no other; a run that reaches the last await
\* before it without an expiry at hand has come from the return of its
\* validate call, and a run that reaches it from the login response carries
\* the session info of that response; the countdown armed runs to the expiry
\* the run holds, and none is armed when it holds none.
C22_ArmedAfterValidate ==
    [][ /\ (\E c \in timers' : /\ c.kind \in {"countdown", "refresh"}
                               /\ c.id \notin TimerIds(timers))
           => \E t \in Suspended("initializeAuthenticated", "dashboard") :
                 DashboardLoaded(t)
        /\ \A d \in BagToSet(tasks') :
              AwaitsDashboard(d)
                 => /\ ~IsSome(getExpiresInSeconds(d.info, now))
                       => InitAuthValidateReturns
                    /\ LoginReturns => IsSome(d.info.expiresIn)
        /\ \A t \in Suspended("initializeAuthenticated", "dashboard") :
              (DashboardLoaded(t) /\ t.caller = "handleLogin")
                 => LET e == getExpiresInSeconds(t.info, now)
                    IN IF IsSome(e)
                          THEN \E c \in ActiveKind("countdown")' :
                                  /\ c.id \notin TimerIds(timers)
                                  /\ sessionTimer' = Some(c.id)
                                  /\ c.expiresAt = now + Val(e) * 1000
                          ELSE TimerIds(timers') \subseteq TimerIds(timers)
      ]_vars

\* A login has ended with the countdown armed to the expiry its validate
\* call returned, and no validate call is in flight
C22_Witness ==
    /\ Settled("handleLogin", {"authenticated"})
    /\ \E c \in ActiveKind("countdown") :
          /\ sessionTimer = Some(c.id)
          /\ c.expiresAt = now + ShortExpiry * 1000
    /\ \A t \in BagToSet(tasks) : t.pc # "validateSession"

\* ---- C23: what getExpiresInSeconds returns to startSessionManagement is
\* null or a number of seconds that is not negative, for a duration and for
\* an absolute expiresAt alike, and a session that has already expired is
\* left with a countdown whose deadline has passed.  A number and an expiresIn are returned as they are, and
\* startSessionManagement arms nothing for a result <= 0.
C23_ExpiryNeverNegative ==
    last.op = "startSessionManagement"
       => /\ last.input \in {"unknown", "zero", "positive"}
          /\ last.input = "zero"
                => \E t \in ActiveKind("countdown") : t.expiresAt <= now

\* ---- C24: the failure of an auto-refresh while the countdown has not
\* reached its deadline leaves the persisted session and the controller's
\* flag as they were.  onError is handleSessionExpired.
C24_FailedRefreshKeepsSession ==
    [][ \A k \in Suspended("autoRefresh", "refreshSession") :
           (/\ RefreshFailed(k)
            /\ isAuthenticated
            /\ IsSome(getSession(Cur))
            /\ \E c \in ActiveKind("countdown") :
                  sessionTimer = Some(c.id) /\ c.expiresAt > now)
              => (isAuthenticated' /\ IsSome(getSession(Cur)'))
      ]_vars

\* ---- C25: a change-password call that rejected, or resolved with success
\* false, schedules no logout and leaves the session and the flag as they
\* were.  handlePasswordChange never reads the response.
C25_LogoutOnlyOnSuccess ==
    [][ (/\ PasswordChangeReturns \/ ChangePasswordFormReturns
         /\ last'.input \in {"unsuccessful", "rejected"})
           => /\ ActiveKind("forcedLogout")' = ActiveKind("forcedLogout")
              /\ UNCHANGED << localStorage, isAuthenticated >>
      ]_vars

\* ---- C26: when ApiService.logout has settled, resolved or rejected, and
\* when ApiService.validateSession has rejected, getSessionId() returns null:
\* the id is gone from the cache and from the store; and the rejection has
\* reached the caller's catch.
C26_ApiClearsSessionId ==
    [][ /\ LogoutReturns => ApiGetSessionId(Cur)'.apiSessionId = None
        /\ \A t \in Suspended("handleLogout", "logout") :
              LogoutRejected(t)
                 => /\ last'.outcome = "rejected"
                    /\ toast' = << "Error", "Logout failed" >>
        /\ \A t \in Suspended("init", "validateSession") :
              InitValidateThrew(t)
                 => /\ ApiGetSessionId(Cur)'.apiSessionId = None
                    /\ last'.outcome = "validateThrew"
      ]_vars

\* A logout has rejected: the id is gone from cache and store, the stored
\* user is still there
C26_Witness ==
    /\ Settled("handleLogout", {"rejected"})
    /\ apiSessionId = None
    /\ localStorage.sessionId = None
    /\ IsSome(localStorage.currentUser)

\* ---- C27: a request sent while no session id is persisted carries no
\* X-Session-ID header: the request layer holds no cached id then.
\* clearSession() removes the stored fields and leaves the cache.
C27_NoHeaderAfterClear ==
    [][ (/\ BagCardinality(tasks') > BagCardinality(tasks)
         /\ ~IsSome(localStorage.sessionId))
           => ~IsSome(ApiGetSessionId(Cur).apiSessionId)
      ]_vars

\* ---- C28: while a new login waits for its validate call on the login
\* page, with its session already persisted, every countdown still active
\* was armed for an earlier session; its expiry leaves the new session
\* persisted.  Neither handleLogout nor handleSessionExpired cancels a timer,
\* and onExpire clears whatever is stored.
C28_StaleTimerSparesNewSession ==
    [][ \A t \in ActiveKind("countdown") :
           (/\ CountdownExpires(t)
            /\ page = "login"
            /\ Suspended("handleLogin", "validateSession") # {}
            /\ IsSome(getSession(Cur)))
              => IsSome(getSession(Cur)')
      ]_vars

\* ---- C29: one submission of the login form sends one login request and
\* one click on logout sends one logout request, whatever cycles of login,
\* logout and expiry came before.  Every return to the login page and every
\* dashboard load registers one more listener.
C29_OneCallPerSubmission ==
    [][ /\ (\E valid \in BOOLEAN : SubmitLogin(valid))
           => BagCardinality(tasks') <= BagCardinality(tasks) + 1
        /\ ClickLogout
           => BagCardinality(tasks') = BagCardinality(tasks) + 1
      ]_vars

\* ---- C30: whenever a countdown is active, the auto-refresh interval the
\* same call of startSessionManagement armed right after it is active too.
C30_TimersArmedTogether ==
    \A c \in ActiveKind("countdown") :
        \E r \in ActiveKind("refresh") : r.id = c.id + 1

\* A refresh has succeeded while the countdown was still running: both
\* timers of the arming are active
C30_Witness ==
    /\ Settled("autoRefresh", {"onSuccess"})
    /\ \E c \in ActiveKind("countdown") :
          /\ sessionTimer = Some(c.id)
          /\ c.expiresAt > now
          /\ \E r \in ActiveKind("refresh") :
                r.id = c.id + 1 /\ autoRefreshTimer = Some(r.id)

====
